---- MODULE Spec2Model ----
(***************************************************************************)
(* Model of src/scrape.py: the leaflet worker main() with its job/run      *)
(* lifecycle over the Supabase tables, and the PDF line extractor          *)
(* parse_pdf_offers() with its price/pack recognisers.                     *)
(*                                                                         *)
(* Text is a sequence of characters; a character is a one-letter string.   *)
(* Characters outside ASCII are written by name: "EUR" is the euro sign,   *)
(* "NDASH" the en dash, "BULLET" the bullet.                               *)
(* Numbers are exact: a price is a number of cents, a pack value is a      *)
(* decimal [num, scale] standing for num / 10^scale without trailing       *)
(* zeros, and so is a unit price.                                          *)
(***************************************************************************)
EXTENDS Integers, Sequences, FiniteSets, TLC

\* Python's None in a place that otherwise holds a string
None == "None"

\* Python's None in a place that otherwise holds a structured value (a
\* record, a decimal, a text as a sequence of characters)
NoneV == << >>

(***************************************************************************)
(* Bounds of the model.                                                    *)
(***************************************************************************)
MaxJobs == 2
MaxLinks == 2
MaxTime == 2
MaxLines == 2
\* how often two invocations of main() that run at once take turns
MaxSwitches == 2

(***************************************************************************)
(* The state: the tables of the store, main() and its locals, and the      *)
(* arguments and results of the functions that are also examined alone.    *)
(***************************************************************************)
VARIABLES
    collector_jobs,  \* table collector_jobs: job id -> row
    runs,            \* table runs: run id -> row
    offers_tbl,      \* table offers: the set of its rows
    pc,              \* where main() stands
    now,             \* main: now, until the gate has decided
    manual,          \* main: manual, until the gate has decided
    job,             \* main: the row get_queued_job returned, or NoneV
    week_id,         \* main: week_id
    pdf_links,       \* main: pdf_links
    next_link,       \* main: position of the for loop in pdf_links
    all_offers,      \* main: all_offers
    err,             \* main: str(e) of the exception the handler caught
    raised,          \* the exception that left main(), or None
    faulted,         \* history: a store call or the link search raised in this invocation
    begun,           \* history: the jobs this invocation called update_job(running) for
    fetched,         \* history: what each link of this invocation yielded
    commit,          \* history: what became of the POST of supa_insert_offers in this invocation
    pdf,             \* the document given to one extraction call
    parsed,          \* the result of that extraction call
    stored_once,     \* the rows of offers after a first commit, before the batch is committed again
    unit_args,       \* the arguments of one call of compute_unit_price
    unit_ret,        \* what that call returned
    tie,             \* how a float quotient that lies half-way between two roundings falls
    other,           \* a second invocation of main(), waiting for its turn: its position, locals and history
    switches         \* how often the two invocations have taken turns

\* the second invocation
race == <<other, switches>>

\* the variables of the specifications of single functions and of the race
aside == <<pdf, parsed, stored_once, unit_args, unit_ret, tie, race>>

vars == <<collector_jobs, runs, offers_tbl, pc, now, manual, job, week_id, pdf_links,
          next_link, all_offers, err, raised, faulted, begun, fetched, commit, aside>>

\* what main() was started with
trigger == <<now, manual>>

locals == <<job, week_id, pdf_links, next_link, all_offers, err, raised>>

history == <<faulted, begun, fetched, commit>>

(***************************************************************************)
(* Characters and character classes of the regular expressions.            *)
(***************************************************************************)
Digits == <<"0", "1", "2", "3", "4", "5", "6", "7", "8", "9">>

Digit == {Digits[i] : i \in 1..10}

DigitVal(c) == (CHOOSE i \in 1..10 : Digits[i] = c) - 1

UpperLetters == <<"A", "B", "C", "D", "E", "F", "G", "H", "I", "J", "K", "L", "M",
                  "N", "O", "P", "Q", "R", "S", "T", "U", "V", "W", "X", "Y", "Z">>

LowerLetters == <<"a", "b", "c", "d", "e", "f", "g", "h", "i", "j", "k", "l", "m",
                  "n", "o", "p", "q", "r", "s", "t", "u", "v", "w", "x", "y", "z">>

Upper == {UpperLetters[i] : i \in 1..26}

\* str.lower() on one character
LowerChar(c) ==
    IF c \in Upper
    THEN LowerLetters[CHOOSE i \in 1..26 : UpperLetters[i] = c]
    ELSE c

\* str.lower()
Lower(s) == [i \in 1..Len(s) |-> LowerChar(s[i])]

\* \s
Space == {" ", "\t"}

\* \w
Word == Upper \cup {LowerLetters[i] : i \in 1..26} \cup Digit \cup {"_"}

\* [.,]
Separator == {".", ","}

\* the characters of .strip(" -–•|")
TitleTrim == {" ", "-", "NDASH", "BULLET", "|"}

\* the value of a run of digits s[a..b]
RECURSIVE IntOf(_, _, _)
IntOf(s, a, b) == IF b < a THEN 0 ELSE IntOf(s, a, b - 1) * 10 + DigitVal(s[b])

\* the first position >= i of s that is not in the class cls (Len(s)+1 if none)
RECURSIVE SkipClass(_, _, _)
SkipClass(s, i, cls) ==
    IF i <= Len(s) /\ s[i] \in cls THEN SkipClass(s, i + 1, cls) ELSE i

\* the last position <= i of s that is not in the class cls (0 if none)
RECURSIVE SkipClassBack(_, _, _)
SkipClassBack(s, i, cls) ==
    IF i >= 1 /\ s[i] \in cls THEN SkipClassBack(s, i - 1, cls) ELSE i

\* str.strip(chars)
Strip(s, cls) ==
    LET a == SkipClass(s, 1, cls)
        b == SkipClassBack(s, Len(s), cls)
    IN  IF a > b THEN << >> ELSE SubSeq(s, a, b)

(***************************************************************************)
(* _price_re = (?<!\d)(\d{1,3}(?:[.,]\d{2}))\s*EUR                         *)
(***************************************************************************)
\* a price pattern without the lookbehind: a match may start inside a run of
\* digits
PriceMatchAt_NoLookbehind(ln, i) ==
    LET fits(k) ==
            /\ i + k + 2 <= Len(ln)
            /\ \A j \in i..(i + k - 1) : ln[j] \in Digit
            /\ ln[i + k] \in Separator
            /\ ln[i + k + 1] \in Digit
            /\ ln[i + k + 2] \in Digit
            /\ LET e == SkipClass(ln, i + k + 3, Space)
               IN  e <= Len(ln) /\ ln[e] = "EUR"
    IN  IF /\ i >= 1
           /\ i <= Len(ln)
           /\ \E k \in 1..3 : fits(k)
        THEN LET k == CHOOSE k \in 1..3 : fits(k)
             IN  [start |-> i,
                  end   |-> SkipClass(ln, i + k + 3, Space),
                  cents |-> IntOf(ln, i, i + k - 1) * 100 + IntOf(ln, i + k + 1, i + k + 2)]
        ELSE NoneV

\* the match of _price_re that starts at position i, or None.  k is the
\* number of integer digits; the digits before the separator are a run, so
\* at most one k fits.
PriceMatchAt(ln, i) ==
    LET fits(k) ==
            /\ i + k + 2 <= Len(ln)
            /\ \A j \in i..(i + k - 1) : ln[j] \in Digit
            /\ ln[i + k] \in Separator
            /\ ln[i + k + 1] \in Digit
            /\ ln[i + k + 2] \in Digit
            /\ LET e == SkipClass(ln, i + k + 3, Space)
               IN  e <= Len(ln) /\ ln[e] = "EUR"
    IN  IF /\ i >= 1
           /\ i <= Len(ln)
           /\ (i = 1 \/ ln[i - 1] \notin Digit)
           /\ \E k \in 1..3 : fits(k)
        THEN LET k == CHOOSE k \in 1..3 : fits(k)
             IN  [start |-> i,
                  end   |-> SkipClass(ln, i + k + 3, Space),
                  cents |-> IntOf(ln, i, i + k - 1) * 100 + IntOf(ln, i + k + 1, i + k + 2)]
        ELSE NoneV

\* _price_re.search(ln) from position from on: the leftmost match, or None
RECURSIVE PriceSearch(_, _)
PriceSearch(ln, from) ==
    IF from > Len(ln) THEN NoneV
    ELSE IF PriceMatchAt(ln, from) # NoneV THEN PriceMatchAt(ln, from)
    ELSE PriceSearch(ln, from + 1)

\* _price_re.sub("", ln): every non-overlapping match removed, left to right
RECURSIVE PriceSub(_, _)
PriceSub(ln, from) ==
    LET m == PriceSearch(ln, from)
    IN  IF m = NoneV THEN SubSeq(ln, from, Len(ln))
        ELSE SubSeq(ln, from, m.start - 1) \o PriceSub(ln, m.end + 1)

\* re.sub(r"\s{2,}", " ", s): a run of two or more blanks becomes one space
RECURSIVE CollapseSpaces(_, _)
CollapseSpaces(s, i) ==
    IF i > Len(s) THEN << >>
    ELSE IF s[i] \in Space /\ i < Len(s) /\ s[i + 1] \in Space
    THEN <<" ">> \o CollapseSpaces(s, SkipClass(s, i, Space))
    ELSE <<s[i]>> \o CollapseSpaces(s, i + 1)

\* the title of a price line (lines 144-145)
TitleOf(ln) == Strip(CollapseSpaces(Strip(PriceSub(ln, 1), TitleTrim), 1), Space)

(***************************************************************************)
(* _pack_re = (\d+(?:[.,]\d+)?)\s*(kg|g|l|ml|vnt)\b, re.IGNORECASE         *)
(***************************************************************************)
\* the alternatives of the unit group, in the order the pattern tries them
PackUnits == << <<"k", "g">>, <<"g">>, <<"l">>, <<"m", "l">>, <<"v", "n", "t">> >>

\* unit u matches at position p of ln ignoring case, and a word boundary follows
UnitMatchAt(ln, p, u) ==
    /\ p + Len(u) - 1 <= Len(ln)
    /\ \A j \in 1..Len(u) : LowerChar(ln[p + j - 1]) = u[j]
    /\ (p + Len(u) > Len(ln) \/ ln[p + Len(u)] \notin Word)

\* a decimal without trailing zeros in its fraction: num / 10^scale
RECURSIVE Normalize(_, _)
Normalize(num, scale) ==
    IF scale > 0 /\ num % 10 = 0 THEN Normalize(num \div 10, scale - 1)
    ELSE [num |-> num, scale |-> scale]

RECURSIVE Pow10(_)
Pow10(n) == IF n = 0 THEN 1 ELSE 10 * Pow10(n - 1)

\* the match of _pack_re that starts at position i, or None.  The digit runs
\* and the blanks are taken whole: a shorter run leaves a digit or a blank
\* where the pattern needs the next element.
PackMatchAt(ln, i) ==
    IF ~(i >= 1 /\ i <= Len(ln) /\ ln[i] \in Digit) THEN NoneV
    ELSE
      LET a == SkipClass(ln, i, Digit)
          hasFrac == /\ a + 1 <= Len(ln)
                     /\ ln[a] \in Separator
                     /\ ln[a + 1] \in Digit
          b == IF hasFrac THEN SkipClass(ln, a + 1, Digit) ELSE a
          u == SkipClass(ln, b, Space)
          alts == {n \in 1..Len(PackUnits) : UnitMatchAt(ln, u, PackUnits[n])}
      IN  IF alts = {} THEN NoneV
          ELSE LET n == CHOOSE n \in alts : \A o \in alts : n <= o
                   scale == IF hasFrac THEN b - a - 1 ELSE 0
                   num == IntOf(ln, i, a - 1) * Pow10(scale)
                          + (IF hasFrac THEN IntOf(ln, a + 1, b - 1) ELSE 0)
               IN  [value |-> Normalize(num, scale), unit |-> PackUnits[n]]

\* _pack_re.search(ln): the leftmost match, or None
RECURSIVE PackSearch(_, _)
PackSearch(ln, from) ==
    IF from > Len(ln) THEN NoneV
    ELSE IF PackMatchAt(ln, from) # NoneV THEN PackMatchAt(ln, from)
    ELSE PackSearch(ln, from + 1)

(***************************************************************************)
(* compute_unit_price                                                      *)
(***************************************************************************)
\* The quotient is a float, and round() rounds the float: where the exact
\* quotient lies half-way between two 4-decimal values, the binary roundings
\* of price, pack value and quotient decide to which side the float falls
\* (round(1.99 / 8, 4) is 0.2487, round(0.01 / 8, 4) is 0.0013).
Ties == {"down", "up"}

\* round(a * 10^k / d) to the nearest integer by long division (a >= 0,
\* d > 0), a quotient half-way falling as tie says
RECURSIVE LongDiv(_, _, _, _)
LongDiv(q, r, k, d) ==
    IF k = 0
    THEN IF 2 * r > d \/ (2 * r = d /\ tie = "up") THEN q + 1 ELSE q
    ELSE LongDiv(q * 10 + (r * 10) \div d, (r * 10) % d, k - 1, d)

RoundDiv(a, k, d) == LongDiv(a \div d, a % d, k, d)

\* a conversion that takes grams for kilograms
compute_unit_price_GramsAsKilos(price, pack_value, pack_unit) ==
    LET unit == Lower(pack_unit)
        pos == pack_value.num > 0
        perThousand == Normalize(RoundDiv(price, pack_value.scale + 5, pack_value.num), 4)
        perOne == Normalize(RoundDiv(price, pack_value.scale + 2, pack_value.num), 4)
    IN  IF unit = <<"g">> /\ pos THEN <<perOne, "EUR/kg">>
        ELSE IF unit = <<"k", "g">> /\ pos THEN <<perOne, "EUR/kg">>
        ELSE IF unit = <<"m", "l">> /\ pos THEN <<perThousand, "EUR/l">>
        ELSE IF unit = <<"l">> /\ pos THEN <<perOne, "EUR/l">>
        ELSE IF unit = <<"v", "n", "t">> /\ pos THEN <<perOne, "EUR/vnt">>
        ELSE <<NoneV, None>>

\* price in cents, pack_value a decimal, pack_unit a text; the result is
\* <<unit price (a decimal), label>> or <<None, None>>
compute_unit_price(price, pack_value, pack_unit) ==
    LET unit == Lower(pack_unit)
        pos == pack_value.num > 0
        \* price / (pack_value / 1000.0), rounded to 4 decimals
        perThousand == Normalize(RoundDiv(price, pack_value.scale + 5, pack_value.num), 4)
        \* price / pack_value, rounded to 4 decimals
        perOne == Normalize(RoundDiv(price, pack_value.scale + 2, pack_value.num), 4)
    IN  IF unit = <<"g">> /\ pos THEN <<perThousand, "EUR/kg">>
        ELSE IF unit = <<"k", "g">> /\ pos THEN <<perOne, "EUR/kg">>
        ELSE IF unit = <<"m", "l">> /\ pos THEN <<perThousand, "EUR/l">>
        ELSE IF unit = <<"l">> /\ pos THEN <<perOne, "EUR/l">>
        ELSE IF unit = <<"v", "n", "t">> /\ pos THEN <<perOne, "EUR/vnt">>
        ELSE <<NoneV, None>>

(***************************************************************************)
(* parse_pdf_offers                                                        *)
(***************************************************************************)
\* lines 130: the stripped, non-empty lines of one page text
RECURSIVE PageLines(_)
PageLines(raw) ==
    IF raw = << >> THEN << >>
    ELSE LET ln == Strip(Head(raw), Space)
         IN  (IF ln = << >> THEN << >> ELSE <<ln>>) \o PageLines(Tail(raw))

\* lines 133-164: the candidate of one line, or NoneV when the line is skipped
Candidate(ln) ==
    LET m_price == PriceSearch(ln, 1)
        title == TitleOf(ln)
        m_pack == PackSearch(ln, 1)
        pack_value == IF m_pack = NoneV THEN NoneV ELSE m_pack.value
        pack_unit == IF m_pack = NoneV THEN NoneV ELSE m_pack.unit
        \* "if pack_value and pack_unit": a zero pack value is falsy
        up == IF pack_value # NoneV /\ pack_value.num # 0
              THEN compute_unit_price(m_price.cents, pack_value, pack_unit)
              ELSE <<NoneV, None>>
    IN  IF m_price = NoneV THEN NoneV
        ELSE IF Len(title) < 3 THEN NoneV
        ELSE [title |-> title, price |-> m_price.cents,
              pack_value |-> pack_value, pack_unit |-> pack_unit,
              unit_price |-> up[1], unit_price_unit |-> up[2]]

\* a dedup key that tells titles apart by case (the title not lowered)
DedupKey_CaseSensitive(c) == <<c.title, c.price, c.pack_value, c.pack_unit>>

\* line 167: the local dedup key
DedupKey(c) == <<Lower(c.title), c.price, c.pack_value, c.pack_unit>>

\* lines 172-189: the offer record
Offer(c, source_url, week) ==
    [week_id |-> week, store |-> "lidl", title |-> c.title, category |-> None,
     price |-> c.price, old_price |-> NoneV, currency |-> "EUR",
     pack_value |-> c.pack_value, pack_unit |-> c.pack_unit,
     unit_price |-> c.unit_price, unit_price_unit |-> c.unit_price_unit,
     discount_pct |-> NoneV, valid_from |-> None, valid_to |-> None,
     source_url |-> source_url, source_type |-> "pdf"]

\* lines 132-189: the loop over the lines of a page; st = [offers, seen]
RECURSIVE ScanLines(_, _, _, _)
ScanLines(lines, st, source_url, week) ==
    IF lines = << >> THEN st
    ELSE LET c == Candidate(Head(lines))
             next == IF c = NoneV \/ DedupKey(c) \in st.seen THEN st
                     ELSE [offers |-> Append(st.offers, Offer(c, source_url, week)),
                           seen |-> st.seen \cup {DedupKey(c)}]
         IN  ScanLines(Tail(lines), next, source_url, week)

\* lines 128-189: the loop over the pages
RECURSIVE ScanPages(_, _, _, _)
ScanPages(pages, st, source_url, week) ==
    IF pages = << >> THEN st
    ELSE ScanPages(Tail(pages),
                   ScanLines(PageLines(Head(pages)), st, source_url, week),
                   source_url, week)

\* a document is the sequence of its pages, a page the sequence of the raw
\* lines of its text
parse_pdf_offers(doc, source_url, week) ==
    ScanPages(doc, [offers |-> << >>, seen |-> {}], source_url, week).offers

(***************************************************************************)
(* Texts of the model: raw lines of leaflet pages, and documents.          *)
(***************************************************************************)
\* Pienas 1.99 EUR
LnMilk == <<"P", "i", "e", "n", "a", "s", " ", "1", ".", "9", "9", " ", "EUR">>

\* PIENAS 1.99 EUR
LnMilkUpper == <<"P", "I", "E", "N", "A", "S", " ", "1", ".", "9", "9", " ", "EUR">>

\* Pienas 2.49 EUR
LnMilkDear == <<"P", "i", "e", "n", "a", "s", " ", "2", ".", "4", "9", " ", "EUR">>

\* Suris 500 g 3,49EUR
LnCheese == <<"S", "u", "r", "i", "s", " ", "5", "0", "0", " ", "g", " ", "3", ",", "4", "9", "EUR">>

\* Akcija
LnNoPrice == <<"A", "k", "c", "i", "j", "a">>

Lines == {LnMilk, LnMilkUpper, LnMilkDear, LnCheese, LnNoPrice}

\* the sequences over S of length at most n
SeqsUpTo(S, n) == UNION {[1..k -> S] : k \in 0..n}

\* the page texts the extractor is checked on
Pages == SeqsUpTo(Lines, MaxLines)

\* the documents the extractor is checked on: two pages, either may be empty
Pdfs == {<<first, second>> : first \in Pages, second \in Pages}

\* what a line begins with: nothing, "- ", "| "
LineLeads ==
    {<<>>,
     <<"-", " ">>,
     <<"|", " ">>}

\* the product text: "Pienas", "Suris  Edam" (two blanks), "ab", nothing
LineTitles ==
    {<<"P", "i", "e", "n", "a", "s">>,
     <<"S", "u", "r", "i", "s", " ", " ", "E", "d", "a", "m">>,
     <<"a", "b">>,
     <<>>}

\* what follows it: nothing, " 500 g", " 0 g", " 1,5 KG", " 100"
LinePacks ==
    {<<>>,
     <<" ", "5", "0", "0", " ", "g">>,
     <<" ", "0", " ", "g">>,
     <<" ", "1", ",", "5", " ", "K", "G">>,
     <<" ", "1", "0", "0">>}

\* what stands before the price: " ", " - ", " -<tab>", "<tab>"
LineGaps ==
    {<<" ">>,
     <<" ", "-", " ">>,
     <<" ", "-", "\t">>,
     <<"\t">>}

\* the price text: "1.99 EUR", "3,49EUR", "1234.56 EUR", "12.5 EUR", "1.99", "2.49 EUR 1.99 EUR"
LinePrices ==
    {<<"1", ".", "9", "9", " ", "EUR">>,
     <<"3", ",", "4", "9", "EUR">>,
     <<"1", "2", "3", "4", ".", "5", "6", " ", "EUR">>,
     <<"1", "2", ".", "5", " ", "EUR">>,
     <<"1", ".", "9", "9">>,
     <<"2", ".", "4", "9", " ", "EUR", " ", "1", ".", "9", "9", " ", "EUR">>}

\* the lines the extractor is checked on one by one: every sequence of a
\* beginning, a product text, a follower, a gap and a price text
LineTexts ==
    {lead \o title \o pack \o gap \o price :
       lead \in LineLeads, title \in LineTitles, pack \in LinePacks,
       gap \in LineGaps, price \in LinePrices}

\* the document behind the leaflet links in a run of the worker: two pages,
\* three distinct offers and a line repeated in another case
PdfThree == << <<LnMilk, LnCheese>>, <<LnMilkUpper, LnMilkDear>> >>

Library == {PdfThree}

(***************************************************************************)
(* The worker and the store.                                               *)
(***************************************************************************)
\* the week iso_week_id() yields while the worker runs
CurrentWeek == "2024-W06"

\* a timestamp (isoformat of now_vilnius())
Stamp == "ts"

\* the exceptions, named by the call that raised
ExcQuery == "supa_get(collector_jobs)"

ExcBegin == "update_job(running)"

ExcLinks == "find_lidl_pdf_links"

ExcInsert == "supa_insert_offers"

ExcRunOk == "update_run(ok)"

ExcJobDone == "update_job(done)"

ExcRunFail == "update_run(fail)"

ExcJobFailed == "update_job(failed)"

\* what a write to the store can do: succeed; raise without effect (the
\* request did not arrive, or raise_for_status on an error status); raise
\* although the store applied it (the response timed out or was lost)
WriteOutcomes == {"ok", "rejected", "lost"}

Applied(out) == out \in {"ok", "lost"}

\* a call whose HTTP error is not raised (no raise_for_status)
Raises_Swallowed(out) == FALSE

\* raise_for_status, or the exception of the request itself
Raises(out) == out # "ok"

(***************************************************************************)
(* should_run                                                              *)
(***************************************************************************)
\* the timestamps main() is started at: [weekday, hour, minute]
Times ==
    {[weekday |-> 0, hour |-> 12, minute |-> 15], [weekday |-> 0, hour |-> 12, minute |-> 16],
     [weekday |-> 0, hour |-> 13, minute |-> 15], [weekday |-> 1, hour |-> 12, minute |-> 15]}

\* the timestamps the gate alone is examined at
GateTimes == [weekday : 0..6, hour : {11, 12, 13}, minute : {0, 14, 15, 16, 59}]

\* a window that ends before minute 15
should_run_Before15(t) ==
    IF t.weekday \notin {0, 3, 5} THEN FALSE
    ELSE IF t.hour # 12 THEN FALSE
    ELSE 0 <= t.minute /\ t.minute < 15

should_run(t) ==
    IF t.weekday \notin {0, 3, 5} THEN FALSE
    ELSE IF t.hour # 12 THEN FALSE
    ELSE 0 <= t.minute /\ t.minute <= 15

\* a gate that tests the window the wrong way round
GateClosed_Inverted(t, m) == ~m /\ should_run(t)

\* line 227: main() returns at once
GateClosed(t, m) == ~m /\ ~should_run(t)

(***************************************************************************)
(* Supabase REST helpers                                                   *)
(***************************************************************************)
\* PATCH of one row: the columns of the patch replace those of the row
PatchRow(row, patch) ==
    [c \in DOMAIN row |-> IF c \in DOMAIN patch THEN patch[c] ELSE row[c]]

\* supa_patch(table, {"id": "eq.<id>"}, patch) on the rows of a table
supa_patch(table, id, patch) ==
    [r \in DOMAIN table |-> IF table[r].id = id THEN PatchRow(table[r], patch) ELSE table[r]]

\* a query that orders by requested_at ascending
get_queued_job_Oldest(jobs) ==
    LET queued == {j \in DOMAIN jobs : jobs[j].status = "queued"}
    IN  {jobs[j] : j \in {q \in queued :
                            \A o \in queued : jobs[o].requested_at >= jobs[q].requested_at}}

\* a query that also returns failed jobs
get_queued_job_RetryFailed(jobs) ==
    LET queued == {j \in DOMAIN jobs : jobs[j].status \in {"queued", "failed"}}
    IN  {jobs[j] : j \in {q \in queued :
                            \A o \in queued : jobs[o].requested_at <= jobs[q].requested_at}}

\* a query without the status filter
get_queued_job_AnyStatus(jobs) ==
    {jobs[j] : j \in {q \in DOMAIN jobs :
                        \A o \in DOMAIN jobs : jobs[o].requested_at <= jobs[q].requested_at}}

\* the rows that the query of get_queued_job can return as rows[0]: status
\* eq.queued, order requested_at.desc, limit 1 (the store breaks a tie)
get_queued_job(jobs) ==
    LET queued == {j \in DOMAIN jobs : jobs[j].status = "queued"}
    IN  {jobs[j] : j \in {q \in queued :
                            \A o \in queued : jobs[o].requested_at <= jobs[q].requested_at}}

\* the on_conflict columns of the upsert (line 65)
ConflictKey(row) ==
    <<row.week_id, row.store, row.title, row.pack_value, row.pack_unit, row.price>>

\* resolution=merge-duplicates: a row replaces the stored row of its key
RECURSIVE Upsert(_, _)
Upsert(table, rows) ==
    IF rows = << >> THEN table
    ELSE Upsert({r \in table : ConflictKey(r) # ConflictKey(Head(rows))} \cup {Head(rows)},
                Tail(rows))

(***************************************************************************)
(* find_lidl_pdf_links                                                     *)
(***************************************************************************)
\* the PDF links a leaflet page can carry
Urls == 1..MaxLinks

\* sorted(pdfs)
RECURSIVE Sorted(_)
Sorted(S) ==
    IF S = {} THEN << >>
    ELSE LET least == CHOOSE u \in S : \A o \in S : u <= o
         IN  <<least>> \o Sorted(S \ {least})

(***************************************************************************)
(* main                                                                    *)
(***************************************************************************)
\* an assignment in place of the extend: the offers of the earlier links are lost
Extend_Replace(all, offers) == offers

\* line 254: all_offers.extend(offers)
Extend(all, offers) == all \o offers

\* a success patch whose stores_ok counts the links
SuccessPatch_CountLinks(links, all) ==
    [status |-> "ok", stores_ok |-> Len(links), offers_count |-> Len(all),
     finished_at |-> Stamp, errors |-> NoneV, notes |-> "Lidl stage completed."]

\* lines 261-272: the patch of the run on success (the notes, a text that
\* quotes len(pdf_links) and offers_count, are kept as their fixed part)
SuccessPatch(links, all) ==
    [status |-> "ok", stores_ok |-> 1, offers_count |-> Len(all),
     finished_at |-> Stamp, errors |-> NoneV, notes |-> "Lidl stage completed."]

\* lines 282-287: the patch of the run on failure
FailurePatch(e) ==
    [status |-> "fail", finished_at |-> Stamp, errors |-> [worker |-> e],
     notes |-> "Worker failed in Lidl stage."]

\* the state of the locals when main() is entered
ResetLocals ==
    /\ job' = NoneV
    /\ week_id' = None
    /\ pdf_links' = << >>
    /\ next_link' = 1
    /\ all_offers' = << >>
    /\ err' = None
    /\ raised' = None

\* an exception raised inside the try block reaches the handler (line 277)
Handle(e) ==
    /\ err' = e
    /\ pc' = "update_run_fail"

\* the history of a call that can raise
Fault(out) == faulted' = (faulted \/ Raises(out))

\* what a link yields when its download or its extraction raises
Failed == << "failed" >>

\* lines 219-225: main() is started, by the schedule or by hand
Start ==
    /\ pc \in {"idle", "returned", "raised"}
    /\ ResetLocals
    /\ faulted' = FALSE
    /\ begun' = {}
    /\ fetched' = << >>
    /\ commit' = "none"
    /\ now' \in Times
    /\ manual' \in BOOLEAN
    /\ pc' = "gate"
    /\ UNCHANGED <<collector_jobs, runs, offers_tbl, aside>>

\* lines 227-229: outside the window main() returns at once, unless started by hand
Gate ==
    /\ pc = "gate"
    /\ pc' = IF GateClosed(now, manual) THEN "returned" ELSE "get_queued_job"
    /\ UNCHANGED <<collector_jobs, runs, offers_tbl, trigger, locals, history, aside>>

\* lines 231-239.  The clock reading and the trigger are dropped here: what
\* main() writes of the clock later is the timestamp Stamp.
GetQueuedJob ==
    /\ pc = "get_queued_job"
    /\ now' = NoneV
    /\ manual' = FALSE
    /\ \/ \* supa_get raises: outside the try block, the exception leaves main
          /\ faulted' = TRUE
          /\ raised' = ExcQuery
          /\ pc' = "raised"
          /\ UNCHANGED <<job, week_id>>
       \/ /\ get_queued_job(collector_jobs) = {}
          /\ pc' = "returned"
          /\ UNCHANGED <<job, week_id, raised, faulted>>
       \/ \E row \in get_queued_job(collector_jobs) :
            /\ job' = row
            /\ week_id' = IF row.week_id # None THEN row.week_id ELSE CurrentWeek
            /\ pc' = "update_job_running"
            /\ UNCHANGED <<raised, faulted>>
    /\ UNCHANGED <<collector_jobs, runs, offers_tbl, pdf_links, next_link,
                   all_offers, err, begun, fetched, commit, aside>>

\* line 242
UpdateJobRunning ==
    /\ pc = "update_job_running"
    /\ \E out \in WriteOutcomes :
         /\ Fault(out)
         /\ begun' = begun \cup {job.id}
         /\ collector_jobs' =
              IF Applied(out)
              THEN supa_patch(collector_jobs, job.id,
                              [status |-> "running", started_at |-> Stamp])
              ELSE collector_jobs
         /\ IF Raises(out) THEN Handle(ExcBegin)
            ELSE pc' = "find_lidl_pdf_links" /\ UNCHANGED err
    /\ UNCHANGED <<runs, offers_tbl, job, week_id, pdf_links, next_link,
                   all_offers, raised, fetched, commit, trigger, aside>>

\* lines 245-248
FindLinks ==
    /\ pc = "find_lidl_pdf_links"
    /\ \/ /\ faulted' = TRUE
          /\ Handle(ExcLinks)
          /\ UNCHANGED <<pdf_links, next_link, all_offers>>
       \/ \E pdfs \in SUBSET Urls :
            /\ pdf_links' = Sorted(pdfs)
            /\ next_link' = 1
            /\ all_offers' = << >>
            /\ pc' = IF pdfs = {} THEN "supa_insert_offers" ELSE "download"
            /\ UNCHANGED <<err, faulted>>
    /\ UNCHANGED <<collector_jobs, runs, offers_tbl, job, week_id, raised, begun,
                   fetched, commit, trigger, aside>>

\* lines 249-256: one turn of the loop; a failure of download or of the
\* extraction is caught and the loop goes on
Source ==
    /\ pc = "download"
    /\ LET url == pdf_links[next_link]
       IN  \/ \E raising \in {"download", "parse_pdf_offers"} :
                /\ fetched' = Append(fetched, Failed)
                /\ UNCHANGED all_offers
           \/ \E doc \in Library :
                /\ fetched' = Append(fetched, doc)
                /\ all_offers' = Extend(all_offers, parse_pdf_offers(doc, url, week_id))
    /\ next_link' = next_link + 1
    /\ pc' = IF next_link = Len(pdf_links) THEN "supa_insert_offers" ELSE "download"
    /\ UNCHANGED <<collector_jobs, runs, offers_tbl, job, week_id, pdf_links,
                   err, raised, faulted, begun, commit, trigger, aside>>

\* line 259 with lines 58-69: nothing is sent for an empty batch
InsertOffers ==
    /\ pc = "supa_insert_offers"
    /\ \/ /\ all_offers = << >>
          /\ commit' = "not sent"
          /\ pc' = "update_run_ok"
          /\ UNCHANGED <<offers_tbl, faulted, err>>
       \/ /\ all_offers # << >>
          /\ \E out \in WriteOutcomes :
               /\ Fault(out)
               /\ commit' = out
               /\ offers_tbl' = IF Applied(out) THEN Upsert(offers_tbl, all_offers)
                                ELSE offers_tbl
               /\ IF Raises(out) THEN Handle(ExcInsert)
                  ELSE pc' = "update_run_ok" /\ UNCHANGED err
    /\ UNCHANGED <<collector_jobs, runs, job, week_id, pdf_links, next_link,
                   all_offers, raised, begun, fetched, trigger, aside>>

\* lines 261-272
UpdateRunOk ==
    /\ pc = "update_run_ok"
    /\ \E out \in WriteOutcomes :
         /\ Fault(out)
         /\ runs' = IF Applied(out)
                    THEN supa_patch(runs, job.run_id, SuccessPatch(pdf_links, all_offers))
                    ELSE runs
         /\ IF Raises(out) THEN Handle(ExcRunOk)
            ELSE pc' = "update_job_done" /\ UNCHANGED err
    /\ UNCHANGED <<collector_jobs, offers_tbl, job, week_id, pdf_links, next_link,
                   all_offers, raised, begun, fetched, commit, trigger, aside>>

\* lines 274-275
UpdateJobDone ==
    /\ pc = "update_job_done"
    /\ \E out \in WriteOutcomes :
         /\ Fault(out)
         /\ collector_jobs' =
              IF Applied(out)
              THEN supa_patch(collector_jobs, job.id,
                              [status |-> "done", finished_at |-> Stamp, error |-> None])
              ELSE collector_jobs
         /\ IF Raises(out) THEN Handle(ExcJobDone)
            ELSE pc' = "returned" /\ UNCHANGED err
    /\ UNCHANGED <<runs, offers_tbl, job, week_id, pdf_links, next_link,
                   all_offers, raised, begun, fetched, commit, trigger, aside>>

\* lines 277-287: the handler; an exception of its own calls leaves main
UpdateRunFail ==
    /\ pc = "update_run_fail"
    /\ \E out \in WriteOutcomes :
         /\ Fault(out)
         /\ runs' = IF Applied(out)
                    THEN supa_patch(runs, job.run_id, FailurePatch(err))
                    ELSE runs
         /\ IF Raises(out) THEN pc' = "raised" /\ raised' = ExcRunFail
            ELSE pc' = "update_job_failed" /\ UNCHANGED raised
    /\ UNCHANGED <<collector_jobs, offers_tbl, job, week_id, pdf_links, next_link,
                   all_offers, err, begun, fetched, commit, trigger, aside>>

\* lines 288-289
UpdateJobFailed ==
    /\ pc = "update_job_failed"
    /\ \E out \in WriteOutcomes :
         /\ Fault(out)
         /\ collector_jobs' =
              IF Applied(out)
              THEN supa_patch(collector_jobs, job.id,
                              [status |-> "failed", finished_at |-> Stamp, error |-> err])
              ELSE collector_jobs
         /\ raised' = IF Raises(out) THEN ExcJobFailed ELSE err
         /\ pc' = "raised"
    /\ UNCHANGED <<runs, offers_tbl, job, week_id, pdf_links, next_link,
                   all_offers, err, begun, fetched, commit, trigger, aside>>

\* outside the worker: a job is created in queued, with its run
Enqueue ==
    /\ Cardinality(DOMAIN collector_jobs) < MaxJobs
    /\ LET id == Cardinality(DOMAIN collector_jobs) + 1
       IN  \E at \in 1..MaxTime, week \in {None, "2024-W05"} :
             /\ collector_jobs' = collector_jobs @@ (id :>
                  [id |-> id, run_id |-> id, week_id |-> week, status |-> "queued",
                   requested_at |-> at, started_at |-> None, finished_at |-> None,
                   error |-> None])
             /\ runs' = runs @@ (id :>
                  [id |-> id, status |-> "pending", stores_ok |-> 0, offers_count |-> 0,
                   finished_at |-> None, errors |-> NoneV, notes |-> None])
    /\ UNCHANGED <<offers_tbl, pc, locals, history, trigger, aside>>

\* the parts of an initial state
NoRows ==
    /\ collector_jobs = << >>
    /\ runs = << >>
    /\ offers_tbl = {}

NotStarted ==
    /\ now = NoneV
    /\ manual = FALSE

NoLocals ==
    /\ job = NoneV
    /\ week_id = None
    /\ pdf_links = << >>
    /\ next_link = 1
    /\ all_offers = << >>
    /\ err = None
    /\ raised = None

NoHistory ==
    /\ faulted = FALSE
    /\ begun = {}
    /\ fetched = << >>
    /\ commit = "none"

NoDocument ==
    /\ pdf = << >>
    /\ parsed = NoneV

NoRecommit == stored_once = NoneV

NoUnitCall ==
    /\ unit_args = NoneV
    /\ unit_ret = NoneV

\* an invocation that has not been started
NotInvoked ==
    [pc |-> "idle", now |-> NoneV, manual |-> FALSE, job |-> NoneV, week_id |-> None,
     pdf_links |-> << >>, next_link |-> 1, all_offers |-> << >>, err |-> None,
     raised |-> None, faulted |-> FALSE, begun |-> {}, fetched |-> << >>,
     commit |-> "none"]

NoRace ==
    /\ other = NotInvoked
    /\ switches = 0

\* no unit price of the texts of the worker lies half-way
Init ==
    /\ NoRows
    /\ pc = "idle"
    /\ NotStarted
    /\ NoLocals
    /\ NoHistory
    /\ NoDocument
    /\ NoRecommit
    /\ NoUnitCall
    /\ tie = "down"
    /\ NoRace

Next ==
    \/ Start
    \/ Gate
    \/ GetQueuedJob
    \/ UpdateJobRunning
    \/ FindLinks
    \/ Source
    \/ InsertOffers
    \/ UpdateRunOk
    \/ UpdateJobDone
    \/ UpdateRunFail
    \/ UpdateJobFailed
    \/ Enqueue

Spec == Init /\ [][Next]_vars

(***************************************************************************)
(* The gate alone: main() started at any time of the week.                 *)
(***************************************************************************)
InitGate ==
    /\ NoRows
    /\ pc = "gate"
    /\ now \in GateTimes
    /\ manual \in BOOLEAN
    /\ NoLocals
    /\ NoHistory
    /\ NoDocument
    /\ NoRecommit
    /\ NoUnitCall
    /\ tie = "down"
    /\ NoRace

NextGate == Gate

SpecGate == InitGate /\ [][NextGate]_vars

(***************************************************************************)
(* Two invocations of main() at once (two scheduled or dispatched          *)
(* processes) on one queued job.  One of them runs, the other waits; they  *)
(* take turns between any two steps.                                       *)
(***************************************************************************)
\* main() is between its start and its end
Live(p) == p \notin {"idle", "returned", "raised"}

\* the position, the locals and the history of the invocation that runs
Invocation ==
    [pc |-> pc, now |-> now, manual |-> manual, job |-> job, week_id |-> week_id,
     pdf_links |-> pdf_links, next_link |-> next_link, all_offers |-> all_offers,
     err |-> err, raised |-> raised, faulted |-> faulted, begun |-> begun,
     fetched |-> fetched, commit |-> commit]

\* the invocation that runs is suspended inside main() and the other goes on
\* (or is started, if it was not yet)
Switch ==
    /\ switches < MaxSwitches
    /\ Live(pc)
    /\ switches' = switches + 1
    /\ other' = Invocation
    /\ pc' = other.pc
    /\ now' = other.now
    /\ manual' = other.manual
    /\ job' = other.job
    /\ week_id' = other.week_id
    /\ pdf_links' = other.pdf_links
    /\ next_link' = other.next_link
    /\ all_offers' = other.all_offers
    /\ err' = other.err
    /\ raised' = other.raised
    /\ faulted' = other.faulted
    /\ begun' = other.begun
    /\ fetched' = other.fetched
    /\ commit' = other.commit
    /\ UNCHANGED <<collector_jobs, runs, offers_tbl, pdf, parsed, stored_once,
                   unit_args, unit_ret, tie>>

\* one job is queued, with its run
InitRace ==
    /\ collector_jobs = (1 :>
         [id |-> 1, run_id |-> 1, week_id |-> None, status |-> "queued",
          requested_at |-> 1, started_at |-> None, finished_at |-> None,
          error |-> None])
    /\ runs = (1 :>
         [id |-> 1, status |-> "pending", stores_ok |-> 0, offers_count |-> 0,
          finished_at |-> None, errors |-> NoneV, notes |-> None])
    /\ offers_tbl = {}
    /\ pc = "idle"
    /\ NotStarted
    /\ NoLocals
    /\ NoHistory
    /\ NoDocument
    /\ NoRecommit
    /\ NoUnitCall
    /\ tie = "down"
    /\ NoRace

NextRace ==
    \/ Start
    \/ Gate
    \/ GetQueuedJob
    \/ UpdateJobRunning
    \/ FindLinks
    \/ Source
    \/ InsertOffers
    \/ UpdateRunOk
    \/ UpdateJobDone
    \/ UpdateRunFail
    \/ UpdateJobFailed
    \/ Switch

SpecRace == InitRace /\ [][NextRace]_vars

(***************************************************************************)
(* The extractor alone: one call of parse_pdf_offers on a document.        *)
(***************************************************************************)
InitParse ==
    /\ NoRows
    /\ pc = "idle"
    /\ NotStarted
    /\ NoLocals
    /\ NoHistory
    /\ pdf \in Pdfs
    /\ parsed = NoneV
    /\ NoRecommit
    /\ NoUnitCall
    /\ tie = "down"
    /\ NoRace

ParseCall ==
    /\ parsed = NoneV
    /\ parsed' = [offers |-> parse_pdf_offers(pdf, 1, CurrentWeek)]
    /\ UNCHANGED <<collector_jobs, runs, offers_tbl, pc, locals, history, trigger, pdf, stored_once, unit_args, unit_ret, tie, race>>

NextParse == ParseCall

SpecParse == InitParse /\ [][NextParse]_vars

\* one call of parse_pdf_offers on a document of one page and one line
InitLine ==
    /\ NoRows
    /\ pc = "idle"
    /\ NotStarted
    /\ NoLocals
    /\ NoHistory
    /\ pdf \in {<< <<ln>> >> : ln \in LineTexts}
    /\ parsed = NoneV
    /\ NoRecommit
    /\ NoUnitCall
    /\ tie = "down"
    /\ NoRace

NextLine == ParseCall

SpecLine == InitLine /\ [][NextLine]_vars

(***************************************************************************)
(* The unit price alone: one call of compute_unit_price.                   *)
(***************************************************************************)
\* prices in cents: 2.50, 3.00, 1.99, 0.01
UnitPrices == {250, 300, 199, 1}

\* pack values: 0, 500, 1, 1.5, 8, 3, -1, 0.5
UnitPackValues ==
    {[num |-> 0, scale |-> 0], [num |-> 500, scale |-> 0], [num |-> 1, scale |-> 0],
     [num |-> 15, scale |-> 1], [num |-> 8, scale |-> 0], [num |-> 3, scale |-> 0],
     [num |-> -1, scale |-> 0], [num |-> 5, scale |-> 1]}

\* pack units: the five units in lower and in upper or mixed case, an unknown
\* unit and the empty text
UnitTexts ==
    {<<"g">>, <<"k", "g">>, <<"m", "l">>, <<"l">>, <<"v", "n", "t">>,
     <<"G">>, <<"K", "g">>, <<"M", "L">>, <<"L">>, <<"V", "N", "T">>,
     <<"o", "z">>, << >>}

InitUnit ==
    /\ NoRows
    /\ pc = "idle"
    /\ NotStarted
    /\ NoLocals
    /\ NoHistory
    /\ NoDocument
    /\ NoRecommit
    /\ unit_args \in [price : UnitPrices, pack_value : UnitPackValues, pack_unit : UnitTexts]
    /\ unit_ret = NoneV
    /\ tie \in Ties
    /\ NoRace

UnitCall ==
    /\ unit_ret = NoneV
    /\ unit_ret' = [ret |-> compute_unit_price(unit_args.price, unit_args.pack_value,
                                                unit_args.pack_unit)]
    /\ UNCHANGED <<collector_jobs, runs, offers_tbl, pc, trigger, locals, history,
                   pdf, parsed, stored_once, unit_args, tie, race>>

NextUnit == UnitCall

SpecUnit == InitUnit /\ [][NextUnit]_vars

(***************************************************************************)
(* The commit alone: supa_insert_offers on a batch, and on the same batch  *)
(* again, over a store that earlier commits have filled.                   *)
(***************************************************************************)
\* the offers the extractor makes of the lines of the model
OfferRows ==
    {Offer(Candidate(ln), url, CurrentWeek) : ln \in {LnMilk, LnMilkUpper, LnCheese}, url \in Urls}

\* what earlier commits can have left in offers: one row for a conflict key
Stores == {t \in SUBSET OfferRows : \A r, o \in t : ConflictKey(r) = ConflictKey(o) => r = o}

\* the batches main() can hand to supa_insert_offers: the offers of the links
\* in the order of the links, those of one link different in the dedup key
Batches ==
    {b \in SeqsUpTo(OfferRows, MaxLines) :
       \A i, j \in 1..Len(b) :
         i < j => /\ b[i].source_url <= b[j].source_url
                  /\ b[i].source_url = b[j].source_url => DedupKey(b[i]) # DedupKey(b[j])}

InitCommit ==
    /\ collector_jobs = << >>
    /\ runs = << >>
    /\ offers_tbl \in Stores
    /\ pc = "supa_insert_offers"
    /\ NotStarted
    /\ job = NoneV
    /\ week_id = CurrentWeek
    /\ pdf_links = << >>
    /\ next_link = 1
    /\ all_offers \in Batches
    /\ err = None
    /\ raised = None
    /\ NoHistory
    /\ NoDocument
    /\ NoRecommit
    /\ NoUnitCall
    /\ tie = "down"
    /\ NoRace

\* the same batch is handed to supa_insert_offers a second time
CommitAgain ==
    /\ pc \in {"update_run_ok", "update_run_fail"}
    /\ stored_once = NoneV
    /\ stored_once' = [rows |-> offers_tbl, first |-> commit]
    /\ pc' = "supa_insert_offers"
    /\ err' = None
    /\ UNCHANGED <<collector_jobs, runs, offers_tbl, job, week_id, pdf_links, next_link,
                   all_offers, raised, history, trigger, pdf, parsed, unit_args, unit_ret, tie, race>>

NextCommit ==
    \/ InsertOffers
    \/ CommitAgain

SpecCommit == InitCommit /\ [][NextCommit]_vars

(***************************************************************************)
(* Properties.                                                             *)
(***************************************************************************)
Status(j) == collector_jobs[j].status

\* main() has ended, by return or by an exception
Ended == pc \in {"returned", "raised"}

\* the row of the job main() picked, as the store holds it now
JobRow == collector_jobs[job.id]

RunRow == runs[job.run_id]

\* C1: a job's status only changes along queued->running, running->done and
\* running->failed, also when store updates raise.
C1_StatusEdges ==
    [][\A j \in DOMAIN collector_jobs :
         Status(j) # collector_jobs'[j].status
           => <<Status(j), collector_jobs'[j].status>> \in
                {<<"queued", "running">>, <<"running", "done">>, <<"running", "failed">>}]_vars

\* C2: a run's status becomes terminal once and never changes afterwards, and
\* in no state is a run terminal while its job is still running.
C2_RunTerminalOnceWithJob ==
    [][\A j \in DOMAIN collector_jobs :
         LET r == collector_jobs[j].run_id
         IN  /\ runs[r].status \in {"ok", "fail"} => runs'[r].status = runs[r].status
             /\ runs'[r].status \in {"ok", "fail"}
                  => collector_jobs'[j].status # "running"]_vars

\* C3: when main() has ended, the job it began (its status left queued) is
\* done or failed, never running.
C3_BegunJobIsTerminal ==
    (Ended /\ job # NoneV /\ JobRow.status # "queued")
      => JobRow.status \in {"done", "failed"}

\* the links of this invocation whose document was fetched and extracted
Succeeded == {i \in 1..Len(fetched) : fetched[i] # Failed}

\* the number of offers extracted from the first n links
RECURSIVE Extracted(_)
Extracted(n) ==
    IF n = 0 THEN 0
    ELSE Extracted(n - 1)
         + (IF n \in Succeeded
            THEN Len(parse_pdf_offers(fetched[n], pdf_links[n], week_id))
            ELSE 0)

\* C4: when main() has ended for a job and neither the link search nor a
\* store call raised, whatever links failed to download or parse, the handler
\* was not entered, the job is done, the run is ok and its offers_count is
\* the number of offers extracted from the links that succeeded.
C4_SourceFailuresAreSwallowed ==
    (Ended /\ job # NoneV /\ ~faulted)
      => /\ pc = "returned"
         /\ err = None
         /\ Len(fetched) = Len(pdf_links)
         /\ JobRow.status = "done"
         /\ RunRow.status = "ok"
         /\ RunRow.offers_count = Extracted(Len(fetched))

\* C4 witness: two links, one failed and one gave three offers; run ok with
\* offers_count 3, job done.
C4_Witness ==
    /\ pc = "returned"
    /\ job # NoneV
    /\ ~faulted
    /\ Len(fetched) = 2
    /\ Cardinality(Succeeded) = 1
    /\ JobRow.status = "done"
    /\ RunRow.status = "ok"
    /\ RunRow.offers_count = 3

\* C5 as claimed: on success the run's stores_ok is the number of sources
\* that were processed successfully.
C5_StoresOkCountsSources ==
    (pc = "returned" /\ job # NoneV /\ RunRow.status = "ok")
      => RunRow.stores_ok = Cardinality(Succeeded)

\* C5 as amended: a run whose status is ok carries stores_ok = 1, whatever
\* number of sources there were and whichever of them failed.
C5_StoresOkIsOne ==
    \A r \in DOMAIN runs : runs[r].status = "ok" => runs[r].stores_ok = 1

\* C5 witness: a job succeeded although both of its two sources failed.
C5_Witness ==
    /\ pc = "returned"
    /\ job # NoneV
    /\ RunRow.status = "ok"
    /\ Len(fetched) = 2
    /\ Succeeded = {}

\* C6: when the link search or the upsert raised, main() ends with the job
\* failed and carrying the error text, the run fail and carrying the error
\* payload, and the same exception leaving main().
C6_FaultIsTerminal ==
    (Ended /\ err \in {ExcLinks, ExcInsert})
      => /\ JobRow.status = "failed"
         /\ JobRow.error = err
         /\ RunRow.status = "fail"
         /\ RunRow.errors = [worker |-> err]
         /\ raised = err

\* C7: a job whose status has left queued (it was claimed) never returns to
\* queued and is never again the job that get_queued_job hands to main().
C7_NoRetry ==
    [][\A j \in DOMAIN collector_jobs :
         Status(j) # "queued"
           => /\ collector_jobs'[j].status # "queued"
              /\ ~(pc = "get_queued_job" /\ job' # NoneV /\ job'.id = j)]_vars

\* C7 witness: main() has picked a job while a job as new or newer than it,
\* failed by an earlier invocation, is in the table.
C7_Witness ==
    /\ pc = "update_job_running"
    /\ \E j \in DOMAIN collector_jobs :
         /\ j # job.id
         /\ Status(j) = "failed"
         /\ collector_jobs[j].requested_at >= job.requested_at

\* C8: a successful query of get_queued_job yields no job exactly when no job
\* is queued, and otherwise a queued job that no queued job is newer than;
\* and an invocation of main() begins at most one job.
C8_AcquireNewestQueued ==
    [][/\ (pc = "get_queued_job" /\ pc' \in {"returned", "update_job_running"})
          => /\ (job' = NoneV) <=> (\A j \in DOMAIN collector_jobs : Status(j) # "queued")
             /\ job' # NoneV
                  => /\ Status(job'.id) = "queued"
                     /\ job' = collector_jobs[job'.id]
                     /\ \A j \in DOMAIN collector_jobs :
                          Status(j) = "queued"
                            => collector_jobs[j].requested_at <= job'.requested_at
       /\ Cardinality(begun') <= 1]_vars

\* C8 witness: the job picked and begun was the newer of two queued jobs.
C8_Witness ==
    /\ pc = "find_lidl_pdf_links"
    /\ begun = {job.id}
    /\ \E j \in DOMAIN collector_jobs :
         /\ Status(j) = "queued"
         /\ collector_jobs[j].requested_at < job.requested_at

\* the lines of all pages of a document, in reading order
RECURSIVE AllLines(_)
AllLines(doc) ==
    IF doc = << >> THEN << >> ELSE PageLines(Head(doc)) \o AllLines(Tail(doc))

\* the candidates of a document in the order they are met
CandidatesOf(doc) ==
    LET lns == AllLines(doc)
        kept == SelectSeq([i \in 1..Len(lns) |-> Candidate(lns[i])],
                          LAMBDA c : c # NoneV)
    IN  kept

\* the key of C9 on a candidate or an offer
TitleKey(o) == <<Lower(o.title), o.price, o.pack_value, o.pack_unit>>

\* the positions of the candidates that no earlier candidate shares the key of
FirstOccurrences(cands) ==
    {i \in 1..Len(cands) : \A h \in 1..(i - 1) : TitleKey(cands[h]) # TitleKey(cands[i])}

\* C9: the offers one extraction call emits are pairwise different in
\* (lowercase(title), price, pack_value, pack_unit), and they are the first
\* occurrences of the keys among the candidates, in the order they occur.
C9_FirstSeenWins ==
    parsed # NoneV
      => LET out == parsed.offers
             cands == CandidatesOf(pdf)
             first == FirstOccurrences(cands)
         IN  /\ \A a, b \in 1..Len(out) : a # b => TitleKey(out[a]) # TitleKey(out[b])
             /\ Len(out) = Cardinality(first)
             /\ \A n \in 1..Len(out) :
                  \E i \in first :
                    /\ Cardinality({h \in first : h <= i}) = n
                    /\ out[n].title = cands[i].title
                    /\ out[n].price = cands[i].price
                    /\ out[n].pack_value = cands[i].pack_value
                    /\ out[n].pack_unit = cands[i].pack_unit

\* C9 witness: the call dropped a candidate whose title differs from the
\* first occurrence of its key in case only, and emitted two offers or more.
C9_Witness ==
    /\ parsed # NoneV
    /\ Len(parsed.offers) >= 2
    /\ LET cands == CandidatesOf(pdf)
       IN  \E h, i \in 1..Len(cands) :
             /\ h < i
             /\ TitleKey(cands[h]) = TitleKey(cands[i])
             /\ cands[h].title # cands[i].title

\* the natural key of an offer
NaturalKey(o) ==
    <<o.week_id, o.store, Lower(o.title), o.price, o.pack_value, o.pack_unit>>

\* C10: the batch a run hands to supa_insert_offers holds no two offers of
\* the same natural key.
C10_BatchHasDistinctKeys ==
    pc = "supa_insert_offers"
      => \A a, b \in 1..Len(all_offers) :
           a # b => NaturalKey(all_offers[a]) # NaturalKey(all_offers[b])

\* no two rows of a table share the natural key
DistinctNaturalKeys(table) ==
    \A r, o \in table : NaturalKey(r) = NaturalKey(o) => r = o

\* the second commit of a batch whose first commit the store applied
SecondCommit ==
    /\ pc = "supa_insert_offers"
    /\ stored_once # NoneV
    /\ stored_once.first \in {"ok", "lost", "not sent"}

\* C11: a second commit of a batch leaves the rows of offers as the first
\* left them; after a commit the store holds one row for the natural key of
\* each offer of the batch (a colliding row was overwritten, none added); and
\* for an empty batch nothing is sent and nothing changes.
C11_CommitIsIdempotent ==
    [][pc = "supa_insert_offers"
         => /\ SecondCommit => offers_tbl' = offers_tbl
            /\ (DistinctNaturalKeys(offers_tbl) /\ commit' \in {"ok", "lost"})
                 => \A i \in 1..Len(all_offers) :
                      Cardinality({r \in offers_tbl' :
                                     NaturalKey(r) = NaturalKey(all_offers[i])}) = 1
            /\ all_offers = << >>
                 => commit' = "not sent" /\ offers_tbl' = offers_tbl]_vars

\* the window as the comment of should_run states it: Mon/Thu/Sat, 12:00-12:15
InWindow(t) == t.weekday \in {0, 3, 5} /\ t.hour = 12 /\ t.minute \in 0..15

NoQueuedJob == \A j \in DOMAIN collector_jobs : Status(j) # "queued"

\* C12, on the steps of main() (steps that move pc; rows created from
\* outside meanwhile are not main()'s): started outside the window and not
\* by hand, main() returns at once and normally; with no queued job it
\* returns normally unless the query raised; and in both cases, as when the
\* query raises, no row of
\* collector_jobs, runs or offers is changed.
C12_NothingToDoChangesNothing ==
    [][/\ (pc = "gate" /\ pc' # pc /\ ~manual /\ ~InWindow(now))
            => /\ pc' = "returned"
               /\ raised' = None
               /\ UNCHANGED <<collector_jobs, runs, offers_tbl>>
       /\ (pc = "get_queued_job" /\ pc' # pc)
            => /\ pc' = "raised" => (raised' = ExcQuery /\ job' = NoneV)
               /\ (NoQueuedJob /\ pc' # "raised") => (pc' = "returned" /\ raised' = None)
               /\ (NoQueuedJob \/ pc' = "raised")
                    => UNCHANGED <<collector_jobs, runs, offers_tbl>>]_vars

\* C12 witness: main() has returned at the gate while a job is queued.
C12_Witness ==
    /\ pc = "returned"
    /\ now # NoneV
    /\ ~manual
    /\ ~InWindow(now)
    /\ ~NoQueuedJob

\* main() went on past the gate
Admitted == pc = "get_queued_job"

\* C13 as claimed: not started by hand, minute 15 of an allowed weekday is
\* admitted, minute 16 is not, a disallowed weekday never is; started by
\* hand, every timestamp is admitted.
C13_GateAsStated ==
    (pc # "gate" /\ now # NoneV)
      => /\ (~manual /\ now.weekday \in {0, 3, 5} /\ now.minute = 15) => Admitted
         /\ (~manual /\ now.minute = 16) => ~Admitted
         /\ (~manual /\ now.weekday \notin {0, 3, 5}) => ~Admitted
         /\ manual => Admitted

\* C13 as amended: not started by hand, a timestamp is admitted exactly when
\* its weekday is Mon, Thu or Sat, its hour 12 and its minute 0 to 15 (12:15
\* is, 12:16 is not, no other hour is); started by hand, every timestamp is.
C13_GateAtNoon ==
    (pc # "gate" /\ now # NoneV)
      => (Admitted <=> (manual \/ (now.weekday \in {0, 3, 5} /\ now.hour = 12
                                    /\ now.minute \in 0..15)))

\* C13 witness: the schedule started main() on a Thursday at 12:15 and the
\* gate let it pass.
C13_Witness ==
    /\ Admitted
    /\ now # NoneV
    /\ ~manual
    /\ now = [weekday |-> 3, hour |-> 12, minute |-> 15]

Abs(n) == IF n < 0 THEN -n ELSE n

\* the label of a unit, or None for a text that is no unit
LabelOf(unit) ==
    IF unit \in {<<"g">>, <<"k", "g">>} THEN "EUR/kg"
    ELSE IF unit \in {<<"m", "l">>, <<"l">>} THEN "EUR/l"
    ELSE IF unit = <<"v", "n", "t">> THEN "EUR/vnt"
    ELSE None

\* C14: compute_unit_price returns (None, None) for a pack value <= 0 and
\* for a unit that is, in lower case, none of g, kg, ml, l, vnt; otherwise
\* the label of the unit and a value of at most 4 decimals that is no
\* farther than 0.00005 from price / (pack_value / 1000) for g and ml and
\* from price / pack_value for kg, l and vnt; (2.50, 500, g) gives
\* (5.00, EUR/kg) and (3.00, 0, kg) gives (None, None).
C14_UnitPriceTable ==
    unit_ret # NoneV
      => LET price == unit_args.price
             pv == unit_args.pack_value
             unit == Lower(unit_args.pack_unit)
             r == unit_ret.ret
             \* the exact quotient in units of 0.0001 is scaled / pv.num
             scaled == price * Pow10(pv.scale + 2 + (IF unit \in {<<"g">>, <<"m", "l">>} THEN 3 ELSE 0))
         IN  /\ IF pv.num <= 0 \/ LabelOf(unit) = None
                THEN r = <<NoneV, None>>
                ELSE /\ r[2] = LabelOf(unit)
                     /\ r[1] # NoneV
                     /\ r[1].scale \in 0..4
                     /\ 2 * Abs(r[1].num * Pow10(4 - r[1].scale) * pv.num - scaled) <= pv.num
             /\ (price = 250 /\ pv = [num |-> 500, scale |-> 0] /\ unit_args.pack_unit = <<"g">>)
                  => r = <<[num |-> 5, scale |-> 0], "EUR/kg">>
             /\ (price = 300 /\ pv.num = 0 /\ unit_args.pack_unit = <<"k", "g">>)
                  => r = <<NoneV, None>>

\* C14 witness: a call with a unit in upper case and a fractional pack value
\* returned a unit price: (1.99, 1.5, "ML") gives (1326.6667, EUR/l).
C14_Witness ==
    /\ unit_ret # NoneV
    /\ unit_args = [price |-> 199, pack_value |-> [num |-> 15, scale |-> 1],
                    pack_unit |-> <<"M", "L">>]
    /\ unit_ret.ret = <<[num |-> 13266667, scale |-> 4], "EUR/l">>

\* the line of a document of one page and one line
TheLine == pdf[1][1]

\* positions i..e of ln hold k digits, a separator, two digits, blanks or
\* none and the currency sign, and no digit stands before position i
IsPriceToken(ln, i, k, e) ==
    /\ i >= 1
    /\ e = i + k + 3 \/ (e > i + k + 3 /\ \A j \in (i + k + 3)..(e - 1) : ln[j] \in {" ", "\t"})
    /\ e <= Len(ln)
    /\ \A j \in i..(i + k - 1) : ln[j] \in Digit
    /\ ln[i + k] \in {".", ","}
    /\ ln[i + k + 1] \in Digit
    /\ ln[i + k + 2] \in Digit
    /\ ln[e] = "EUR"
    /\ i > 1 => ln[i - 1] \notin Digit

\* where the price tokens of a line start
TokenStarts(ln) ==
    {i \in 1..Len(ln) : \E k \in 1..3 : \E e \in i..Len(ln) : IsPriceToken(ln, i, k, e)}

\* the amount in cents of the token that starts at i
TokenCents(ln, i) ==
    LET k == CHOOSE k \in 1..3 : \E e \in i..Len(ln) : IsPriceToken(ln, i, k, e)
    IN  IntOf(ln, i, i + k - 1) * 100 + DigitVal(ln[i + k + 1]) * 10 + DigitVal(ln[i + k + 2])

\* Pienas 100 1.99 EUR
LnBareInteger ==
    <<"P", "i", "e", "n", "a", "s", " ", "1", "0", "0", " ", "1", ".", "9", "9", " ", "EUR">>

\* Pienas 1234.56 EUR
LnFourDigits ==
    <<"P", "i", "e", "n", "a", "s", " ", "1", "2", "3", "4", ".", "5", "6", " ", "EUR">>

\* C15: the price of the offer of a line is the amount of the first token
\* of 1 to 3 digits, '.' or ',', 2 digits and the currency sign that no digit
\* precedes; a line without such a token gives no offer; "Pienas 100 1.99
\* EUR" gives the price 1.99 and "Pienas 1234.56 EUR" gives no offer.
C15_FirstPriceToken ==
    parsed # NoneV
      => LET ln == TheLine
             starts == TokenStarts(ln)
             out == parsed.offers
         IN  /\ starts = {} => out = << >>
             /\ out # << >>
                  => /\ starts # {}
                     /\ Len(out) = 1
                     /\ out[1].price = TokenCents(ln, CHOOSE i \in starts : \A o \in starts : i <= o)
             /\ ln = LnBareInteger => (Len(out) = 1 /\ out[1].price = 199)
             /\ ln = LnFourDigits => out = << >>

\* C15 witness: the line "Pienas 100 1.99 EUR" gave one offer, of price 1.99.
C15_Witness ==
    /\ parsed # NoneV
    /\ TheLine = LnBareInteger
    /\ Len(parsed.offers) = 1
    /\ parsed.offers[1].price = 199

\* C16: every offer the extractor emits has pack_value and pack_unit null
\* together, and a pack_value that is not null is greater than 0.
C16_PackValueNullOrPositive ==
    parsed # NoneV
      => \A n \in 1..Len(parsed.offers) :
           LET o == parsed.offers[n]
           IN  /\ (o.pack_value = NoneV) <=> (o.pack_unit = NoneV)
               /\ o.pack_value # NoneV => o.pack_value.num > 0

\* the characters C17 has trimmed off both ends of a title
TitleEnds == {"-", "NDASH", "BULLET", "|", " ", "\t"}

\* the title C17 states for a line: price tokens removed, the ends trimmed,
\* every run of blanks made one space
StatedTitle(ln) == CollapseSpaces(Strip(PriceSub(ln, 1), TitleEnds), 1)

\* C17: the title of an emitted offer has 3 characters or more and is the
\* line without its price tokens, trimmed at both ends of -, NDASH, BULLET,
\* | and blanks, its runs of blanks collapsed; a line with a price whose
\* title so made is shorter than 3 characters gives no offer.
C17_TitleNormalised ==
    parsed # NoneV
      => LET out == parsed.offers
         IN  /\ \A n \in 1..Len(out) :
                  /\ Len(out[n].title) >= 3
                  /\ out[n].title = StatedTitle(TheLine)
             /\ (TokenStarts(TheLine) # {} /\ Len(StatedTitle(TheLine)) < 3) => out = << >>

\* C19: in every state, a job whose status is done has a run whose status is
\* ok, and a job whose status is failed has a run whose status is fail.
C19_JobAndRunAgree ==
    \A j \in DOMAIN collector_jobs :
      /\ Status(j) = "done" => runs[collector_jobs[j].run_id].status = "ok"
      /\ Status(j) = "failed" => runs[collector_jobs[j].run_id].status = "fail"

\* the batch is in the store: every offer of it has a stored row of its
\* conflict key, and upserting it again would change nothing
BatchStored ==
    /\ \A i \in 1..Len(all_offers) :
         \E r \in offers_tbl : ConflictKey(r) = ConflictKey(all_offers[i])
    /\ Upsert(offers_tbl, all_offers) = offers_tbl

\* C20: while the run of the job of this invocation is ok, or the job done,
\* the commit of the batch did not raise (or the batch was empty and nothing
\* was sent), the batch is in the store, and, the run being ok, its
\* offers_count is the length of the batch.
C20_CommitBeforeSuccess ==
    (job # NoneV /\ (RunRow.status = "ok" \/ JobRow.status = "done"))
      => /\ commit \in {"ok", "not sent"}
         /\ commit = "not sent" <=> all_offers = << >>
         /\ BatchStored
         /\ RunRow.status = "ok" => RunRow.offers_count = Len(all_offers)

\* C20 witness: a batch of three offers was committed, the run is ok with
\* offers_count 3 and the job is done.
C20_Witness ==
    /\ job # NoneV
    /\ RunRow.status = "ok"
    /\ JobRow.status = "done"
    /\ commit = "ok"
    /\ Len(all_offers) = 3
    /\ RunRow.offers_count = 3
    /\ BatchStored

\* C18, the part under the assumption: as long as the two invocations have
\* not taken turns (one invocation is live at a time), update_job(running)
\* is only called for a job that is queued, a job becomes running only from
\* queued, and a job that has left queued does not become queued again: each
\* job is begun at most once.  The race itself is the witness.
C18_BegunOnceWithoutRace ==
    [][switches' = 0
         => /\ (pc = "update_job_running" /\ pc' # pc) => JobRow.status = "queued"
            /\ \A j \in DOMAIN collector_jobs :
                 /\ (Status(j) # "running" /\ collector_jobs'[j].status = "running")
                      => Status(j) = "queued"
                 /\ Status(j) # "queued" => collector_jobs'[j].status # "queued"]_vars

\* C18 witness: the two invocations acquired the same queued job; one began
\* it, processed it and set it to done with its run ok; then the other began
\* it too, and the done job is running again.
C18_Witness ==
    /\ switches > 0
    /\ pc = "find_lidl_pdf_links"
    /\ begun = {job.id}
    /\ JobRow.status = "running"
    /\ JobRow.finished_at = Stamp
    /\ JobRow.error = None
    /\ RunRow.status = "ok"

====
